---- MODULE Spec2Model ----
(***************************************************************************)
(* EZModbus: the register store (handler.ModbusHandler), its request       *)
(* handlers and statistics, and the lifecycle supervisor                   *)
(* (server.ModbusServer) as wired by main.                                 *)
(*                                                                         *)
(* Every goroutine is a process with a program counter; one action is one  *)
(* atomic step of the Go code (an atomic.AddUint64, a mutex operation, one *)
(* iteration of a handler's loop under the mutex, a channel operation).    *)
(***************************************************************************)
EXTENDS Integers, Sequences, FiniteSets, TLC

(***************************************************************************)
(* Sizes.  The tables are small so that the state space is finite; the     *)
(* 16-bit width of addresses, quantities and the counter is the program's. *)
(***************************************************************************)
MaxRegisters == 2
CounterAddress == 1
MaxReqs == 2
MaxTicks == 1
MaxCalls == 65537
MaxRetriesCap == 3

UnitID == 1
BadUnit == 99
Word == 65536
MaxU16 == 65535
DefaultMaxRetries == 3
TestMaxRegisters == 1000
TestCounterAddress == 102

Clients == {"c1", "c2"}

RegVals == {999, 12345}

Tables == {"holding", "input", "coil", "discrete"}

Cells == 0 .. (MaxRegisters - 1)

\* uint16(x): the conversion of an int to a 16-bit unsigned value.
ToU16(x) == x % Word

(***************************************************************************)
(* Requests, as the transport hands them to the handler.                   *)
(***************************************************************************)
\* The first cell, the counter cell, one past the last cell, the largest.
Addrs == {0, CounterAddress, MaxRegisters, MaxU16}

\* None, one, the whole table, the largest.
Qtys == {0, 1, MaxRegisters, MaxU16}

Units == {UnitID, BadUnit}

\* The argument lists of a write of q cells to table t.  A quantity beyond
\* the table is rejected before Args is read, so no list is enumerated for it.
ArgLists(t, q) ==
  IF q > MaxRegisters THEN {<< >>}
  ELSE IF t = "holding" THEN [1 .. q -> RegVals]
  ELSE [1 .. q -> BOOLEAN]

ReadReqs ==
  [table : Tables, UnitId : Units, Addr : Addrs, Quantity : Qtys,
   IsWrite : {FALSE}, Args : {<< >>}]

WriteReqs ==
  UNION { [table : {t}, UnitId : Units, Addr : Addrs, Quantity : {q},
           IsWrite : {TRUE}, Args : ArgLists(t, q)] :
          t \in {"holding", "coil"}, q \in Qtys }

AllReqs == ReadReqs \cup WriteReqs

\* The requests of the concurrent specification: reads of the whole holding
\* and input tables, a write of the whole holding table, a write of the whole
\* coil table, a read of the first input register under a foreign identity,
\* and a holding read past the end.
ConcReqs ==
  { r \in AllReqs :
      \/ /\ r.UnitId = UnitID
         /\ r.table \in {"holding", "input"}
         /\ r.Addr = 0
         /\ r.Quantity = MaxRegisters
         /\ \A i \in DOMAIN r.Args : r.Args[i] = 999
      \/ /\ r.UnitId = UnitID
         /\ r.table = "coil" /\ r.IsWrite
         /\ r.Addr = 0
         /\ r.Quantity = MaxRegisters
         /\ \A i \in DOMAIN r.Args : r.Args[i] = TRUE
      \/ /\ r.table = "input" /\ ~r.IsWrite /\ r.Addr = 0 /\ r.Quantity = 1
         /\ r.UnitId = BadUnit
      \/ /\ r.table = "holding" /\ ~r.IsWrite /\ r.UnitId = UnitID
         /\ r.Addr = MaxRegisters /\ r.Quantity = 1 }

NoReq ==
  [table |-> "none", UnitId |-> 0, Addr |-> 0, Quantity |-> 0,
   IsWrite |-> FALSE, Args |-> << >>]

IdleClient == [pc |-> "idle", req |-> NoReq, i |-> 0, res |-> << >>, err |-> "none"]

(***************************************************************************)
(* config.InitialData: the seed lists the store is constructed from.       *)
(***************************************************************************)
SeedLists ==
  {
    << [Type |-> "holding", Address |-> 0, Value |-> 2025],
       [Type |-> "holding", Address |-> CounterAddress, Value |-> 1234],
       [Type |-> "coil", Address |-> 0, Value |-> 1],
       [Type |-> "discrete", Address |-> 0, Value |-> 1],
       [Type |-> "input", Address |-> CounterAddress, Value |-> 5678],
       [Type |-> "input", Address |-> MaxRegisters, Value |-> 1],
       [Type |-> "register", Address |-> 0, Value |-> 1] >> }

VARIABLES
  holdingRegs,     \* h.holdingRegs
  inputRegs,       \* h.inputRegs
  coils,           \* h.coils
  discreteInputs,  \* h.discreteInputs
  counter,         \* h.counter
  stats,           \* h.stats: RequestsHandled, Errors
  mu,              \* h.mu: the writer holding it and the readers holding it
  client,          \* per client goroutine: pc, request, loop index, result
  upd,             \* the goroutine inside UpdateCounter: pc, oldValue
  gs,              \* the goroutine inside GetStats: pc and the two loads
  nCalls,          \* history: completed UpdateCounter calls
  lastArg,         \* history: per writable table and cell, the value the
                   \* latest client write request carried for it
  seenStats,       \* history: the (requests, errors) pairs that held during
                   \* the GetStats call in progress or last completed
  calls,           \* history: handler calls that have returned, and how many
                   \* of them returned an exception
  wiring,          \* who drives the supervisor: "main", or a "caller" of the
                   \* exported Start and Stop that holds ctx's cancel function
  maxRetries,      \* config.Server.MaxRetries
  mpc,             \* the driving goroutine's position in main, Start,
                   \* startServer and Stop
  retryCount,      \* Start's retryCount
  ctxDone,         \* the context passed to Start is cancelled
  timerFired,      \* the retry delay's time.After channel is ready
  server,          \* s.server: "nil", "created", "running", "stopped"
  wg,              \* s.wg's counter
  updLoops,        \* live runRegisterUpdater goroutines
  healthLoops,     \* live runHealthChecker goroutines
  sigChan,         \* signals buffered in sigChan (capacity 1)
  sdDone,          \* the shutdown context's deadline has passed
  waiter,          \* Stop's goroutine: "none", "waiting", "closed" (done)
  startErr,        \* what Start returned
  stopErr,         \* what Stop returned
  attempts,        \* history: calls of startServer
  waits,           \* history: retry delays waited out
  attemptsAfterCancel,  \* history: calls of startServer made with ctx cancelled
  abortedWait,     \* history: the retry delay's select returned ctx.Err()
  sigRunning,      \* history: a signal arrived while the server was running
  startedOk,       \* history: a call of server.Start() has succeeded
  cfg,             \* config.ModbusConfig: MaxRegisters, CounterAddress, InitialData
  built,           \* NewModbusHandler: "none" (not called), "ok", "panic"
  probe            \* the answer to a read of the handler just constructed,
                   \* and that handler's counter

tables == << holdingRegs, inputRegs, coils, discreteInputs >>

storeVars ==
  << holdingRegs, inputRegs, coils, discreteInputs, counter, stats, mu,
     client, upd, gs, nCalls, lastArg, seenStats, calls >>

supVars ==
  << wiring, maxRetries, mpc, retryCount, ctxDone, timerFired, server, wg,
     updLoops, healthLoops, sigChan, sdDone, waiter, startErr, stopErr,
     attempts, waits, attemptsAfterCancel, abortedWait, sigRunning,
     startedOk >>

ctorVars == << cfg, built, probe >>

vars == << storeVars, supVars, ctorVars >>

(***************************************************************************)
(* NewModbusHandler: four zeroed tables of MaxRegisters cells, the seed    *)
(* entries applied in order, then the counter cell reset.                  *)
(***************************************************************************)
ZeroTables(n) ==
  [holding |-> [a \in 0 .. (n - 1) |-> 0], input |-> [a \in 0 .. (n - 1) |-> 0],
   coil |-> [a \in 0 .. (n - 1) |-> FALSE],
   discrete |-> [a \in 0 .. (n - 1) |-> FALSE]]

\* One pass of the loop over config.InitialData, for tables of n cells.
ApplySeed(tb, d, n) ==
  IF d.Address >= ToU16(n) THEN tb
  ELSE IF d.Type = "holding" THEN [tb EXCEPT !.holding[d.Address] = d.Value]
  ELSE IF d.Type = "input" THEN [tb EXCEPT !.input[d.Address] = d.Value]
  ELSE IF d.Type = "coil" THEN [tb EXCEPT !.coil[d.Address] = (d.Value # 0)]
  ELSE IF d.Type = "discrete" THEN [tb EXCEPT !.discrete[d.Address] = (d.Value # 0)]
  ELSE tb

RECURSIVE ApplySeeds(_, _, _)
ApplySeeds(tb, seed, n) ==
  IF seed = << >> THEN tb
  ELSE ApplySeeds(ApplySeed(tb, Head(seed), n), Tail(seed), n)

\* An index expression on a slice of n cells panics unless 0 <= a < n.
IndexInRange(a, n) == a \in 0 .. (n - 1)

\* Variant: the counter cell keeps what the seed list put there.
ResetNothing(tb, ca) == tb

\* h.holdingRegs[config.CounterAddress] = 0
ResetCounterCell(tb, ca) == [tb EXCEPT !.holding[ca] = 0]

\* NewModbusHandler(config): the outcome, the tables and the counter, which
\* the struct literal leaves at its zero value.  The statement
\* h.holdingRegs[config.CounterAddress] = 0 panics when the index is out of
\* range; nothing recovers the panic.
NewModbusHandler(config) ==
  LET n == config.MaxRegisters
      tb == ApplySeeds(ZeroTables(n), config.InitialData, n)
  IN IF IndexInRange(config.CounterAddress, n)
     THEN [outcome |-> "ok", tb |-> ResetCounterCell(tb, config.CounterAddress),
           counter |-> 0]
     ELSE [outcome |-> "panic", tb |-> tb, counter |-> 0]

\* The configuration of the store the request handlers are modelled on.
StoreConfig(seed) ==
  [MaxRegisters |-> MaxRegisters, CounterAddress |-> CounterAddress,
   InitialData |-> seed]

NoProbe ==
  [table |-> "none", Addr |-> 0, Quantity |-> 0, IsWrite |-> FALSE,
   Args |-> << >>, err |-> "none", res |-> << >>, counter |-> 0]

\* The handler's state when NewModbusHandler has returned.
InitHandler ==
  /\ stats = [RequestsHandled |-> 0, Errors |-> 0]
  /\ mu = [writer |-> "none", readers |-> {}]
  /\ client = [c \in Clients |-> IdleClient]
  /\ upd = [pc |-> "idle", oldValue |-> 0]
  /\ gs = [pc |-> "idle", RequestsHandled |-> 0, Errors |-> 0]
  /\ nCalls = 0
  /\ lastArg = [t \in {"holding", "coil"} |-> [a \in Cells |-> {}]]
  /\ seenStats = {}
  /\ calls = [returned |-> 0, rejected |-> 0]
  /\ probe = NoProbe

InitStoreFrom(seeds) ==
  /\ \E seed \in seeds :
       LET h == NewModbusHandler(StoreConfig(seed)) IN
         /\ cfg = StoreConfig(seed)
         /\ built = h.outcome
         /\ counter = h.counter
         /\ holdingRegs = h.tb.holding
         /\ inputRegs = h.tb.input
         /\ coils = h.tb.coil
         /\ discreteInputs = h.tb.discrete
  /\ InitHandler

InitStore == InitStoreFrom(SeedLists)

(***************************************************************************)
(* sync.RWMutex                                                            *)
(***************************************************************************)
\* Variant: Lock never waits.
CanLockAlways == TRUE

\* Variant: Lock waits for the readers only.
CanLockOverWriter == mu.readers = {}

\* Lock waits until there is neither a writer nor a reader.
CanLock == mu.writer = "none" /\ mu.readers = {}

CanRLock == mu.writer = "none"

\* Variant: every handler calls RLock.
LockModeShared(t) == "shared"

\* Which lock call each handler makes: Lock in HandleHoldingRegisters and
\* HandleCoils, RLock in HandleInputRegisters and HandleDiscreteInputs.
LockMode(t) == IF t \in {"holding", "coil"} THEN "exclusive" ELSE "shared"

(***************************************************************************)
(* The checks every handler makes before it takes the lock.                *)
(***************************************************************************)
TableLen(t) == MaxRegisters

\* Variant: the sum taken in 16 bits.
OutOfBoundsWrap16(addr, qty, len) == ToU16(addr + qty) > len

\* int(req.Addr)+int(req.Quantity) > len(table)
OutOfBounds(addr, qty, len) == addr + qty > len

\* Variant: neither check rejects.
ValidateNothing(r) == "nil"

\* Variant: the bounds check ahead of the unit check.
ValidateBoundsFirst(r) ==
  IF OutOfBounds(r.Addr, r.Quantity, TableLen(r.table)) THEN "IllegalDataAddress"
  ELSE IF r.UnitId # UnitID THEN "IllegalFunction"
  ELSE "nil"

Validate(r) ==
  IF r.UnitId # UnitID THEN "IllegalFunction"
  ELSE IF OutOfBounds(r.Addr, r.Quantity, TableLen(r.table)) THEN "IllegalDataAddress"
  ELSE "nil"

\* The pair of statistics counters after a step, recorded while a GetStats
\* call is in progress.
Observe(st) == IF gs.pc \in {"loadReq", "loadErr"}
               THEN seenStats \cup {<< st.RequestsHandled, st.Errors >>}
               ELSE seenStats

(***************************************************************************)
(* Handle{HoldingRegisters,InputRegisters,Coils,DiscreteInputs}            *)
(***************************************************************************)
\* Variant: the increment is a load and a store of the load plus one, with
\* another handler's increment in between.
CountRequestLost(st) == st

\* atomic.AddUint64(&h.stats.RequestsHandled, 1)
CountRequest(st) == [st EXCEPT !.RequestsHandled = @ + 1]

\* A handler is called: the request counter first.
Begin(c, r) ==
  /\ client[c].pc = "idle"
  /\ stats.RequestsHandled < MaxReqs
  /\ client' = [client EXCEPT ![c] = [IdleClient EXCEPT !.pc = "check", !.req = r]]
  /\ stats' = CountRequest(stats)
  /\ seenStats' = Observe(stats')
  /\ UNCHANGED << ctorVars, supVars, calls, tables, counter, mu, upd, gs, nCalls, lastArg >>

\* Variant: a rejected request is counted once more as a request.
CountErrorAndRequest(st) ==
  [st EXCEPT !.Errors = @ + 1, !.RequestsHandled = @ + 1]

\* atomic.AddUint64(&h.stats.Errors, 1)
CountError(st) == [st EXCEPT !.Errors = @ + 1]

\* The identity check, then the bounds check; a failure adds one to
\* stats.Errors and returns the exception.
Check(c) ==
  /\ client[c].pc = "check"
  /\ LET e == Validate(client[c].req) IN
       IF e # "nil"
       THEN /\ stats' = CountError(stats)
            /\ client' = [client EXCEPT ![c].pc = "done", ![c].err = e]
            /\ calls' = [returned |-> calls.returned + 1,
                         rejected |-> calls.rejected + 1]
       ELSE /\ stats' = stats
            /\ client' = [client EXCEPT ![c].pc = "lock"]
            /\ calls' = calls
  /\ seenStats' = Observe(stats')
  /\ UNCHANGED << ctorVars, supVars, tables, counter, mu, upd, gs, nCalls, lastArg >>

\* h.mu.Lock() or h.mu.RLock()
Acquire(c) ==
  /\ client[c].pc = "lock"
  /\ IF LockMode(client[c].req.table) = "exclusive"
     THEN CanLock /\ mu' = [mu EXCEPT !.writer = c]
     ELSE CanRLock /\ mu' = [mu EXCEPT !.readers = @ \cup {c}]
  /\ client' = [client EXCEPT ![c].pc = "body"]
  /\ UNCHANGED << ctorVars, supVars, calls, tables, counter, stats, upd, gs, nCalls, lastArg, seenStats >>

\* Variant: no cell is protected.
IsProtectedNever(addr) == FALSE

\* uint16(addr) != h.config.CounterAddress, negated
IsProtected(addr) == ToU16(addr) = CounterAddress

\* Variant: no cell is overwritten.
HoldingWriteNothing(regs, addr, v) == regs

\* if uint16(addr) != CounterAddress { h.holdingRegs[addr] = req.Args[i] }
HoldingWrite(regs, addr, v) ==
  IF ~IsProtected(addr) THEN [regs EXCEPT ![addr] = v] ELSE regs

\* Variant: every cell takes the first argument.
CoilWriteFirstArg(cs, addr, args, i) == [cs EXCEPT ![addr] = args[1]]

\* h.coils[addr] = req.Args[i], i counted from 0
CoilWrite(cs, addr, args, i) == [cs EXCEPT ![addr] = args[i + 1]]

\* Variant: the cell read is cleared.
InputStepClears(regs, addr) == [regs EXCEPT ![addr] = 0]

\* res = append(res, h.inputRegs[int(req.Addr)+i]): the loop of
\* HandleInputRegisters assigns to no cell.
InputStep(regs, addr) == regs

\* res = append(res, h.discreteInputs[int(req.Addr)+i])
DiscreteStep(cells, addr) == cells

\* One iteration of the handler's loop, under the lock.
BodyStep(c) ==
  /\ client[c].pc = "body"
  /\ client[c].i < client[c].req.Quantity
  /\ LET r == client[c].req
         i == client[c].i
         addr == r.Addr + i
     IN
       /\ holdingRegs' =
            IF r.table = "holding" /\ r.IsWrite
            THEN HoldingWrite(holdingRegs, addr, r.Args[i + 1])
            ELSE holdingRegs
       /\ coils' =
            IF r.table = "coil" /\ r.IsWrite
            THEN CoilWrite(coils, addr, r.Args, i)
            ELSE coils
       /\ inputRegs' =
            IF r.table = "input" THEN InputStep(inputRegs, addr) ELSE inputRegs
       /\ discreteInputs' =
            IF r.table = "discrete" THEN DiscreteStep(discreteInputs, addr)
            ELSE discreteInputs
       /\ lastArg' =
            IF r.IsWrite
            THEN [lastArg EXCEPT ![r.table][addr] = {r.Args[i + 1]}]
            ELSE lastArg
       /\ client' =
            [client EXCEPT
               ![c].i = i + 1,
               ![c].res = Append(@,
                  CASE r.table = "holding" -> holdingRegs'[addr]
                    [] r.table = "input" -> inputRegs[addr]
                    [] r.table = "coil" -> coils'[addr]
                    [] r.table = "discrete" -> discreteInputs[addr])]
  /\ UNCHANGED << ctorVars, supVars, calls, counter, stats, mu, upd, gs,
                  nCalls, seenStats >>

\* Variant: the handler returns with the lock still held.
UnlockNothing(m, c, t) == m

\* defer h.mu.Unlock() in HandleHoldingRegisters and HandleCoils,
\* defer h.mu.RUnlock() in HandleInputRegisters and HandleDiscreteInputs
Unlock(m, c, t) ==
  IF LockMode(t) = "exclusive" THEN [m EXCEPT !.writer = "none"]
  ELSE [m EXCEPT !.readers = @ \ {c}]

\* The loop is over: the deferred Unlock or RUnlock, and return res, nil.
Return(c) ==
  /\ client[c].pc = "body"
  /\ client[c].i = client[c].req.Quantity
  /\ mu' = Unlock(mu, c, client[c].req.table)
  /\ client' = [client EXCEPT ![c].pc = "done", ![c].err = "nil"]
  /\ calls' = [calls EXCEPT !.returned = @ + 1]
  /\ UNCHANGED << ctorVars, supVars, tables, counter, stats, upd, gs, nCalls, lastArg, seenStats >>

\* The transport takes the result; the goroutine serves the next request.
Deliver(c) ==
  /\ client[c].pc = "done"
  /\ client' = [client EXCEPT ![c] = IdleClient]
  /\ UNCHANGED << ctorVars, supVars, calls, tables, counter, stats, mu, upd, gs, nCalls, lastArg, seenStats >>

(***************************************************************************)
(* UpdateCounter                                                           *)
(***************************************************************************)
\* h.counter++ on a uint16
Incremented(c) == ToU16(c + 1)

\* Variant: no reset after the wrap.
AfterOverflowKeepsZero(c) == c

\* if h.counter == 0 { h.counter = 1 }
AfterOverflow(c) == IF c = 0 THEN 1 ELSE c

\* h.mu.Lock()
UpdLock(cap) ==
  /\ upd.pc = "idle"
  /\ nCalls < cap
  /\ CanLock
  /\ mu' = [mu EXCEPT !.writer = "upd"]
  /\ upd' = [upd EXCEPT !.pc = "inc"]
  /\ UNCHANGED << ctorVars, supVars, calls, tables, counter, stats, client, gs, nCalls, lastArg, seenStats >>

\* Variant: the counter cell is left as it is.
MirrorNothing(regs, c) == regs

\* h.holdingRegs[h.config.CounterAddress] = h.counter
Mirror(regs, c) == [regs EXCEPT ![CounterAddress] = c]

\* oldValue := h.counter; h.counter++; holdingRegs[CounterAddress] = h.counter
UpdInc ==
  /\ upd.pc = "inc"
  /\ counter' = Incremented(counter)
  /\ holdingRegs' = Mirror(holdingRegs, counter')
  /\ upd' = [pc |-> "ovf", oldValue |-> counter]
  /\ UNCHANGED << ctorVars, supVars, calls, inputRegs, coils, discreteInputs, stats, mu, client, gs,
                  nCalls, lastArg, seenStats >>

\* The overflow test and reset, then the deferred Unlock.
UpdOverflow ==
  /\ upd.pc = "ovf"
  /\ counter' = AfterOverflow(counter)
  /\ holdingRegs' = IF counter = 0
                    THEN Mirror(holdingRegs, 1)
                    ELSE holdingRegs
  /\ mu' = [mu EXCEPT !.writer = "none"]
  /\ upd' = [upd EXCEPT !.pc = "idle"]
  /\ nCalls' = nCalls + 1
  /\ UNCHANGED << ctorVars, supVars, calls, inputRegs, coils, discreteInputs, stats, client, gs,
                  lastArg, seenStats >>

(***************************************************************************)
(* GetStats: two atomic loads, of RequestsHandled and then of Errors.      *)
(***************************************************************************)
\* Variant: GetStats takes the read lock before it loads.
GsCallLocks ==
  /\ gs.pc = "idle"
  /\ CanRLock
  /\ mu' = [mu EXCEPT !.readers = @ \cup {"gs"}]
  /\ gs' = [gs EXCEPT !.pc = "loadReq"]
  /\ seenStats' = {<< stats.RequestsHandled, stats.Errors >>}
  /\ UNCHANGED << ctorVars, supVars, calls, tables, counter, stats, client, upd,
                  nCalls, lastArg >>

GsCall ==
  /\ gs.pc = "idle"
  /\ gs' = [gs EXCEPT !.pc = "loadReq"]
  /\ seenStats' = {<< stats.RequestsHandled, stats.Errors >>}
  /\ UNCHANGED << ctorVars, supVars, calls, tables, counter, stats, mu, client, upd, nCalls, lastArg >>

GsLoadReq ==
  /\ gs.pc = "loadReq"
  /\ gs' = [gs EXCEPT !.pc = "loadErr", !.RequestsHandled = stats.RequestsHandled]
  /\ UNCHANGED << ctorVars, supVars, calls, tables, counter, stats, mu, client, upd, nCalls, lastArg, seenStats >>

GsLoadErr ==
  /\ gs.pc = "loadErr"
  /\ gs' = [gs EXCEPT !.pc = "done", !.Errors = stats.Errors]
  /\ UNCHANGED << ctorVars, supVars, calls, tables, counter, stats, mu, client, upd, nCalls, lastArg, seenStats >>

GsReturn ==
  /\ gs.pc = "done"
  /\ gs' = [gs EXCEPT !.pc = "idle"]
  /\ UNCHANGED << ctorVars, supVars, calls, tables, counter, stats, mu, client, upd, nCalls, lastArg, seenStats >>

(***************************************************************************)
(* The lifecycle supervisor: ModbusServer.Start, startServer and Stop, the *)
(* two background loops, and the goroutine that drives them (main, or      *)
(* another caller of the exported methods).                                *)
(***************************************************************************)
InitSup(w, n) ==
  /\ wiring = w
  /\ maxRetries = n
  /\ mpc = "init"
  /\ retryCount = 0
  /\ ctxDone = FALSE
  /\ timerFired = FALSE
  /\ server = "nil"
  /\ wg = 0
  /\ updLoops = 0
  /\ healthLoops = 0
  /\ sigChan = 0
  /\ sdDone = FALSE
  /\ waiter = "none"
  /\ startErr = "none"
  /\ stopErr = "none"
  /\ attempts = 0
  /\ waits = 0
  /\ attemptsAfterCancel = 0
  /\ abortedWait = FALSE
  /\ sigRunning = FALSE
  /\ startedOk = FALSE

\* os.Exit, or the return of main, ends every goroutine.
Alive == mpc \notin {"exit0", "exit1"}

\* srvr.Start(ctx): retryCount := 0
MainCallStart ==
  /\ mpc = "init"
  /\ mpc' = "loopTop"
  /\ retryCount' = 0
  /\ UNCHANGED << ctorVars, storeVars, sigRunning, startedOk, wiring, maxRetries, ctxDone, timerFired, server,
                  wg, updLoops, healthLoops, sigChan, sdDone, waiter, startErr,
                  stopErr, attempts, waits, attemptsAfterCancel, abortedWait >>

\* Variant: one retry more.
RetriesExhaustedLate(rc, max) == rc > max

\* retryCount >= s.config.Server.MaxRetries
RetriesExhausted(rc, max) == rc >= max

\* Variant: the loop does not look at ctx.
PollDoneNever(done) == FALSE

\* select { case <-ctx.Done(): return ctx.Err(); default: }
PollDone(done) == done

\* The top of Start's loop: the non-blocking check of ctx.Done(), then, from
\* the second pass on, the retry limit and the start of the retry delay.
StartLoopTop ==
  /\ mpc = "loopTop"
  /\ IF PollDone(ctxDone)
     THEN mpc' = "startRet" /\ startErr' = "canceled" /\ timerFired' = timerFired
     ELSE IF retryCount > 0 /\ RetriesExhausted(retryCount, maxRetries)
     THEN mpc' = "startRet" /\ startErr' = "maxRetries" /\ timerFired' = timerFired
     ELSE IF retryCount > 0
     THEN mpc' = "wait" /\ startErr' = startErr /\ timerFired' = FALSE
     ELSE mpc' = "newServer" /\ startErr' = startErr /\ timerFired' = timerFired
  /\ UNCHANGED << ctorVars, storeVars, sigRunning, startedOk, wiring, maxRetries, retryCount, ctxDone, server,
                  wg, updLoops, healthLoops, sigChan, sdDone, waiter, stopErr,
                  attempts, waits, attemptsAfterCancel, abortedWait >>

\* The retry delay elapses: time.After's channel becomes ready.
TimerFire ==
  /\ mpc = "wait"
  /\ ~timerFired
  /\ timerFired' = TRUE
  /\ UNCHANGED << ctorVars, storeVars, sigRunning, startedOk, wiring, maxRetries, mpc, retryCount, ctxDone,
                  server, wg, updLoops, healthLoops, sigChan, sdDone, waiter,
                  startErr, stopErr, attempts, waits, attemptsAfterCancel,
                  abortedWait >>

\* select { case <-ctx.Done(): ...; case <-time.After(delay): }: the cases
\* that are ready; Go takes any one of them.
WaitOutcomes(done, fired) ==
  (IF done THEN {"cancel"} ELSE {}) \cup (IF fired THEN {"timer"} ELSE {})

\* The select takes ctx.Done(): return ctx.Err().
StartWaitCancelled ==
  /\ mpc = "wait"
  /\ "cancel" \in WaitOutcomes(ctxDone, timerFired)
  /\ mpc' = "startRet"
  /\ startErr' = "canceled"
  /\ abortedWait' = TRUE
  /\ UNCHANGED << ctorVars, storeVars, sigRunning, startedOk, wiring, maxRetries, retryCount, ctxDone, timerFired,
                  server, wg, updLoops, healthLoops, sigChan, sdDone, waiter,
                  stopErr, attempts, waits, attemptsAfterCancel >>

\* The select takes the timer: go on to startServer.
StartWaitElapsed ==
  /\ mpc = "wait"
  /\ "timer" \in WaitOutcomes(ctxDone, timerFired)
  /\ mpc' = "newServer"
  /\ waits' = waits + 1
  /\ UNCHANGED << ctorVars, storeVars, sigRunning, startedOk, wiring, maxRetries, retryCount, ctxDone, timerFired,
                  server, wg, updLoops, healthLoops, sigChan, sdDone, waiter,
                  startErr, stopErr, attempts, attemptsAfterCancel, abortedWait >>

\* startServer begins: modbus.NewServer fails (Start counts the failure and
\* loops) or returns the server, kept in s.server.
NewServer ==
  /\ mpc = "newServer"
  /\ attempts' = attempts + 1
  /\ attemptsAfterCancel' = IF ctxDone THEN attemptsAfterCancel + 1
                            ELSE attemptsAfterCancel
  /\ \/ /\ mpc' = "loopTop"
        /\ retryCount' = retryCount + 1
        /\ server' = server
     \/ /\ mpc' = "spawn"
        /\ retryCount' = retryCount
        /\ server' = "created"
  /\ UNCHANGED << ctorVars, storeVars, sigRunning, startedOk, wiring, maxRetries, ctxDone, timerFired, wg,
                  updLoops, healthLoops, sigChan, sdDone, waiter, startErr,
                  stopErr, waits, abortedWait >>

\* s.wg.Add(1); go runRegisterUpdater(ctx); s.wg.Add(1); go runHealthChecker(ctx)
Spawn ==
  /\ mpc = "spawn"
  /\ wg' = wg + 2
  /\ updLoops' = updLoops + 1
  /\ healthLoops' = healthLoops + 1
  /\ mpc' = "srvStart"
  /\ UNCHANGED << ctorVars, storeVars, sigRunning, startedOk, wiring, maxRetries, retryCount, ctxDone, timerFired,
                  server, sigChan, sdDone, waiter, startErr, stopErr, attempts,
                  waits, attemptsAfterCancel, abortedWait >>

\* server.Start() fails (Start counts the failure and loops) or succeeds.
ServerStart ==
  /\ mpc = "srvStart"
  /\ \/ /\ mpc' = "loopTop"
        /\ retryCount' = retryCount + 1
        /\ server' = server
        /\ startedOk' = startedOk
     \/ /\ mpc' = "blockCtx"
        /\ retryCount' = retryCount
        /\ server' = "running"
        /\ startedOk' = TRUE
  /\ UNCHANGED << ctorVars, storeVars, sigRunning, wiring, maxRetries, ctxDone, timerFired, wg,
                  updLoops, healthLoops, sigChan, sdDone, waiter, startErr,
                  stopErr, attempts, waits, attemptsAfterCancel, abortedWait >>

\* <-ctx.Done() at the end of startServer; then Start returns nil.
BlockCtx ==
  /\ mpc = "blockCtx"
  /\ ctxDone
  /\ mpc' = "startRet"
  /\ startErr' = "nil"
  /\ UNCHANGED << ctorVars, storeVars, sigRunning, startedOk, wiring, maxRetries, retryCount, ctxDone, timerFired,
                  server, wg, updLoops, healthLoops, sigChan, sdDone, waiter,
                  stopErr, attempts, waits, attemptsAfterCancel, abortedWait >>

\* Start has returned.  main exits with status 1 on an error and goes on to
\* wait for a signal otherwise; another caller cleans up with Stop on an error.
AfterStart ==
  /\ mpc = "startRet"
  /\ mpc' = IF startErr = "nil" THEN "waitSig"
            ELSE IF wiring = "main" THEN "exit1" ELSE "stop"
  /\ UNCHANGED << ctorVars, storeVars, sigRunning, startedOk, wiring, maxRetries, retryCount, ctxDone, timerFired,
                  server, wg, updLoops, healthLoops, sigChan, sdDone, waiter,
                  startErr, stopErr, attempts, waits, attemptsAfterCancel,
                  abortedWait >>

\* <-sigChan, then context.WithTimeout for the shutdown
WaitSignal ==
  /\ mpc = "waitSig"
  /\ sigChan > 0
  /\ sigChan' = sigChan - 1
  /\ mpc' = "stop"
  /\ UNCHANGED << ctorVars, storeVars, sigRunning, startedOk, wiring, maxRetries, retryCount, ctxDone, timerFired,
                  server, wg, updLoops, healthLoops, sdDone, waiter, startErr,
                  stopErr, attempts, waits, attemptsAfterCancel, abortedWait >>

\* Stop: s.server.Stop() if there is a server, then the goroutine that waits
\* for s.wg and closes done.
StopTransport ==
  /\ mpc = "stop"
  /\ server' = IF server # "nil" THEN "stopped" ELSE server
  /\ waiter' = "waiting"
  /\ mpc' = "stopSel"
  /\ UNCHANGED << ctorVars, storeVars, sigRunning, startedOk, wiring, maxRetries, retryCount, ctxDone, timerFired,
                  wg, updLoops, healthLoops, sigChan, sdDone, startErr, stopErr,
                  attempts, waits, attemptsAfterCancel, abortedWait >>

\* Variant: the wait does not wait.
WgZeroAlways(n) == TRUE

\* s.wg.Wait() returns when the counter is zero.
WgZero(n) == n = 0

\* s.wg.Wait(); close(done)
WaiterDone ==
  /\ Alive
  /\ waiter = "waiting"
  /\ WgZero(wg)
  /\ waiter' = "closed"
  /\ UNCHANGED << ctorVars, storeVars, sigRunning, startedOk, wiring, maxRetries, mpc, retryCount, ctxDone,
                  timerFired, server, wg, updLoops, healthLoops, sigChan, sdDone,
                  startErr, stopErr, attempts, waits, attemptsAfterCancel,
                  abortedWait >>

\* The shutdown context's deadline passes.
DeadlineFire ==
  /\ mpc \in {"stop", "stopSel"}
  /\ ~sdDone
  /\ sdDone' = TRUE
  /\ UNCHANGED << ctorVars, storeVars, sigRunning, startedOk, wiring, maxRetries, mpc, retryCount, ctxDone,
                  timerFired, server, wg, updLoops, healthLoops, sigChan, waiter,
                  startErr, stopErr, attempts, waits, attemptsAfterCancel,
                  abortedWait >>

\* Stop's select takes done: return nil.
StopSelDone ==
  /\ mpc = "stopSel"
  /\ waiter = "closed"
  /\ stopErr' = "nil"
  /\ mpc' = "stopRet"
  /\ UNCHANGED << ctorVars, storeVars, sigRunning, startedOk, wiring, maxRetries, retryCount, ctxDone, timerFired,
                  server, wg, updLoops, healthLoops, sigChan, sdDone, waiter,
                  startErr, attempts, waits, attemptsAfterCancel, abortedWait >>

\* Stop's select takes ctx.Done(): return ctx.Err().
StopSelTimeout ==
  /\ mpc = "stopSel"
  /\ sdDone
  /\ stopErr' = "DeadlineExceeded"
  /\ mpc' = "stopRet"
  /\ UNCHANGED << ctorVars, storeVars, sigRunning, startedOk, wiring, maxRetries, retryCount, ctxDone, timerFired,
                  server, wg, updLoops, healthLoops, sigChan, sdDone, waiter,
                  startErr, attempts, waits, attemptsAfterCancel, abortedWait >>

\* Stop has returned.  main exits, with status 1 on an error and otherwise by
\* returning, which runs the deferred cancel(); another caller carries on.
AfterStop ==
  /\ mpc = "stopRet"
  /\ mpc' = IF wiring # "main" THEN "returned"
            ELSE IF stopErr = "nil" THEN "exit0" ELSE "exit1"
  /\ ctxDone' = IF wiring = "main" /\ stopErr = "nil" THEN TRUE ELSE ctxDone
  /\ UNCHANGED << ctorVars, storeVars, sigRunning, startedOk, wiring, maxRetries, retryCount, timerFired, server,
                  wg, updLoops, healthLoops, sigChan, sdDone, waiter, startErr,
                  stopErr, attempts, waits, attemptsAfterCancel, abortedWait >>

\* SIGINT or SIGTERM arrives: signal.Notify's send to sigChan does not block,
\* so a signal is dropped while one is buffered.
Signal ==
  /\ Alive
  /\ sigChan = 0
  /\ sigChan' = 1
  /\ sigRunning' = (sigRunning \/ server = "running")
  /\ UNCHANGED << ctorVars, storeVars, startedOk, wiring, maxRetries, mpc, retryCount, ctxDone,
                  timerFired, server, wg, updLoops, healthLoops, sdDone, waiter,
                  startErr, stopErr, attempts, waits, attemptsAfterCancel,
                  abortedWait >>

\* A caller that kept the cancel function of the context it gave Start
\* cancels it.  main calls cancel only as it returns (AfterStop).
CancelCtx ==
  /\ wiring = "caller"
  /\ mpc # "init"
  /\ ~ctxDone
  /\ ctxDone' = TRUE
  /\ UNCHANGED << ctorVars, storeVars, sigRunning, startedOk, wiring, maxRetries, mpc, retryCount, timerFired,
                  server, wg, updLoops, healthLoops, sigChan, sdDone, waiter,
                  startErr, stopErr, attempts, waits, attemptsAfterCancel,
                  abortedWait >>

\* Variant: a goroutine inside UpdateCounter counts as waiting in its select.
UpdAtSelectAll == updLoops

\* runRegisterUpdater goroutines waiting in their select.
UpdAtSelect == updLoops - (IF upd.pc = "idle" THEN 0 ELSE 1)

\* runRegisterUpdater's select takes ticker.C: UpdateCounter is called.
UpdaterTick ==
  /\ Alive
  /\ UpdAtSelect > 0
  /\ UpdLock(MaxTicks)

\* runRegisterUpdater's select takes ctx.Done(): return, and wg.Done().
UpdaterExit ==
  /\ Alive
  /\ UpdAtSelect > 0
  /\ ctxDone
  /\ updLoops' = updLoops - 1
  /\ wg' = wg - 1
  /\ UNCHANGED << ctorVars, storeVars, sigRunning, startedOk, wiring, maxRetries, mpc, retryCount, ctxDone,
                  timerFired, server, healthLoops, sigChan, sdDone, waiter,
                  startErr, stopErr, attempts, waits, attemptsAfterCancel,
                  abortedWait >>

\* runHealthChecker goroutines waiting in their select.
HealthAtSelect == healthLoops - (IF gs.pc = "idle" THEN 0 ELSE 1)

\* runHealthChecker's select takes ticker.C: GetStats is called.
HealthTick ==
  /\ Alive
  /\ HealthAtSelect > 0
  /\ GsCall

\* runHealthChecker's select takes ctx.Done(): return, and wg.Done().
HealthExit ==
  /\ Alive
  /\ HealthAtSelect > 0
  /\ ctxDone
  /\ healthLoops' = healthLoops - 1
  /\ wg' = wg - 1
  /\ UNCHANGED << ctorVars, storeVars, sigRunning, startedOk, wiring, maxRetries, mpc, retryCount, ctxDone,
                  timerFired, server, updLoops, sigChan, sdDone, waiter,
                  startErr, stopErr, attempts, waits, attemptsAfterCancel,
                  abortedWait >>

(***************************************************************************)
(* Specifications of the store.                                            *)
(*   Spec         one client issuing every request, and UpdateCounter      *)
(*   SpecCounter  UpdateCounter alone, through the 16-bit wraparound       *)
(*   SpecConc     two clients, UpdateCounter and GetStats                  *)
(* The supervisor has not been started in these.                           *)
(***************************************************************************)
Init == InitStore /\ InitSup("main", DefaultMaxRetries)

NextStore ==
  \/ \E r \in AllReqs : Begin("c1", r)
  \/ Check("c1")
  \/ Acquire("c1")
  \/ BodyStep("c1")
  \/ Return("c1")
  \/ Deliver("c1")
  \/ UpdLock(MaxTicks)
  \/ UpdInc
  \/ UpdOverflow

Spec == Init /\ [][NextStore]_vars

NextCounter ==
  \/ UpdLock(MaxCalls)
  \/ UpdInc
  \/ UpdOverflow

SpecCounter == Init /\ [][NextCounter]_vars

NextConc ==
  \/ \E c \in Clients :
       \/ \E r \in ConcReqs : Begin(c, r)
       \/ Check(c)
       \/ Acquire(c)
       \/ BodyStep(c)
       \/ Return(c)
       \/ Deliver(c)
  \/ UpdLock(MaxTicks)
  \/ UpdInc
  \/ UpdOverflow
  \/ GsCall
  \/ GsLoadReq
  \/ GsLoadErr
  \/ GsReturn

SpecConc == Init /\ [][NextConc]_vars

(***************************************************************************)
(* SpecLock: two clients, UpdateCounter and GetStats contending for the    *)
(* table lock, each goroutine scheduled fairly: a goroutine that stays     *)
(* runnable is run eventually, and a goroutine blocked in Lock or RLock is *)
(* runnable once the lock stays available to it.                           *)
(***************************************************************************)
\* A request that takes Lock and one that takes RLock: a write of holding
\* register 0 and a read of discrete input 0.
LockReqs ==
  { r \in AllReqs :
      /\ r.Addr = 0
      /\ r.Quantity = 1
      /\ r.UnitId = UnitID
      /\ \/ r.table = "holding" /\ r.IsWrite
            /\ \A i \in DOMAIN r.Args : r.Args[i] = 999
         \/ r.table = "discrete" }

NextLock ==
  \/ \E c \in Clients :
       \/ \E r \in LockReqs : Begin(c, r)
       \/ Check(c)
       \/ Acquire(c)
       \/ BodyStep(c)
       \/ Return(c)
       \/ Deliver(c)
  \/ UpdLock(MaxTicks)
  \/ UpdInc
  \/ UpdOverflow
  \/ GsCall
  \/ GsLoadReq
  \/ GsLoadErr
  \/ GsReturn

LockFairness ==
  /\ \A c \in Clients :
       WF_vars(Check(c) \/ Acquire(c) \/ BodyStep(c) \/ Return(c))
  /\ WF_vars(UpdInc \/ UpdOverflow)
  /\ WF_vars(GsLoadReq \/ GsLoadErr \/ GsReturn)

SpecLock == Init /\ [][NextLock]_vars /\ LockFairness

(***************************************************************************)
(* SpecWrap: two clients reading the holding registers while UpdateCounter *)
(* takes the counter through the 16-bit wraparound.  It starts in the      *)
(* state SpecCounter reaches after MaxU16 - 1 calls of UpdateCounter.      *)
(***************************************************************************)
WrapStart == MaxU16 - 1

\* Reads of the counter cell alone and of the whole holding table.
WrapReqs ==
  { r \in ReadReqs :
      /\ r.table = "holding"
      /\ r.UnitId = UnitID
      /\ \/ r.Addr = CounterAddress /\ r.Quantity = 1
         \/ r.Addr = 0 /\ r.Quantity = MaxRegisters }

InitWrap ==
  /\ \E seed \in SeedLists :
       LET h == NewModbusHandler(StoreConfig(seed)) IN
         /\ cfg = StoreConfig(seed)
         /\ built = h.outcome
         /\ counter = WrapStart
         /\ holdingRegs = Mirror(h.tb.holding, WrapStart)
         /\ inputRegs = h.tb.input
         /\ coils = h.tb.coil
         /\ discreteInputs = h.tb.discrete
  /\ stats = [RequestsHandled |-> 0, Errors |-> 0]
  /\ mu = [writer |-> "none", readers |-> {}]
  /\ client = [c \in Clients |-> IdleClient]
  /\ upd = [pc |-> "idle", oldValue |-> WrapStart - 1]
  /\ gs = [pc |-> "idle", RequestsHandled |-> 0, Errors |-> 0]
  /\ nCalls = WrapStart
  /\ lastArg = [t \in {"holding", "coil"} |-> [a \in Cells |-> {}]]
  /\ seenStats = {}
  /\ calls = [returned |-> 0, rejected |-> 0]
  /\ probe = NoProbe
  /\ InitSup("main", DefaultMaxRetries)

NextWrap ==
  \/ \E c \in Clients :
       \/ \E r \in WrapReqs : Begin(c, r)
       \/ Check(c)
       \/ Acquire(c)
       \/ BodyStep(c)
       \/ Return(c)
       \/ Deliver(c)
  \/ UpdLock(MaxCalls)
  \/ UpdInc
  \/ UpdOverflow

SpecWrap == InitWrap /\ [][NextWrap]_vars

(***************************************************************************)
(* Construction.  SpecNew draws a configuration, calls NewModbusHandler on *)
(* it and, if a handler came back, reads holding registers from it with    *)
(* the configured identity.                                                *)
(***************************************************************************)
\* config.go's default InitialData.
DefaultInitialData ==
  << [Type |-> "holding", Address |-> 100, Value |-> 2025],
     [Type |-> "holding", Address |-> 101, Value |-> 1234],
     [Type |-> "coil", Address |-> 0, Value |-> 1],
     [Type |-> "discrete", Address |-> 0, Value |-> 1],
     [Type |-> "input", Address |-> 100, Value |-> 5678] >>

\* Entries that are skipped, before and between entries that are not, and
\* two entries for one cell.
MixedInitialData ==
  << [Type |-> "holding", Address |-> MaxU16, Value |-> 7],
     [Type |-> "holding", Address |-> 0, Value |-> 11],
     [Type |-> "register", Address |-> 0, Value |-> 8],
     [Type |-> "coil", Address |-> TestMaxRegisters, Value |-> 1],
     [Type |-> "holding", Address |-> 0, Value |-> 12],
     [Type |-> "input", Address |-> 0, Value |-> 13],
     [Type |-> "discrete", Address |-> 0, Value |-> 1] >>

Configs ==
  [MaxRegisters : {1, MaxRegisters, TestMaxRegisters, Word},
   CounterAddress : {0, CounterAddress, MaxRegisters, TestCounterAddress,
                     TestMaxRegisters, MaxU16},
   InitialData : SeedLists \cup {<< >>, DefaultInitialData, MixedInitialData}]

ProbeReqs ==
  [table : Tables, Addr : {0, 100}, Quantity : {1, 3}]

InitNew ==
  /\ cfg \in Configs
  /\ built = "none"
  /\ holdingRegs = << >>
  /\ inputRegs = << >>
  /\ coils = << >>
  /\ discreteInputs = << >>
  /\ counter = 0
  /\ InitHandler
  /\ InitSup("main", DefaultMaxRetries)

\* A handler's answer to a read of q.Quantity cells of table q.table from
\* q.Addr with the configured identity: the bounds check against the
\* table's length, then the cells in ascending order.
ReadTable(tb, n, q) ==
  IF OutOfBounds(q.Addr, q.Quantity, n)
  THEN [NoProbe EXCEPT !.table = q.table, !.Addr = q.Addr,
                        !.Quantity = q.Quantity, !.err = "IllegalDataAddress"]
  ELSE [NoProbe EXCEPT !.table = q.table, !.Addr = q.Addr,
                        !.Quantity = q.Quantity, !.err = "nil",
                        !.res = [j \in 1 .. q.Quantity |->
                                   tb[q.table][q.Addr + j - 1]]]

\* handler := NewModbusHandler(cfg, logger), then one read of it, as
\* TestInitialValues does.  The handler is the caller's local value: nothing
\* of it outlives the step but the answer, kept with the handler's counter.
NewThenRead(q) ==
  /\ built = "none"
  /\ LET h == NewModbusHandler(cfg) IN
       /\ built' = h.outcome
       /\ probe' = IF h.outcome = "ok"
                   THEN [ReadTable(h.tb, cfg.MaxRegisters, q)
                           EXCEPT !.counter = h.counter]
                   ELSE probe
  /\ UNCHANGED << supVars, storeVars, cfg >>

NextNew == \E q \in ProbeReqs : NewThenRead(q)

SpecNew == InitNew /\ [][NextNew]_vars

(***************************************************************************)
(* SpecBig: a handler is constructed with tables of up to BigMaxRegisters  *)
(* cells, more than 16 bits address, and answers one write of the holding  *)
(* registers.  As in SpecNew the handler is local to the step.             *)
(***************************************************************************)
\* config.MaxRegisters is an int: a table size beyond 65536.
BigMaxRegisters == Word + 8

BigConfigs ==
  [MaxRegisters : {TestMaxRegisters, Word, BigMaxRegisters},
   CounterAddress : {CounterAddress},
   InitialData : {<< >>}]

\* Writes of one value to a few cells, at the start of the table, at cell
\* 100 and around the last 16-bit address.
BigWrites ==
  UNION { [Addr : {0, CounterAddress, 100, MaxU16 - 2, MaxU16 - 1, MaxU16},
           Quantity : {q},
           Args : { [j \in 1 .. q |-> v] : v \in RegVals }] :
          q \in 1 .. (CounterAddress + 3) }

InitBig ==
  /\ cfg \in BigConfigs
  /\ built = "none"
  /\ holdingRegs = << >>
  /\ inputRegs = << >>
  /\ coils = << >>
  /\ discreteInputs = << >>
  /\ counter = 0
  /\ InitHandler
  /\ InitSup("main", DefaultMaxRetries)

\* The loop of HandleHoldingRegisters for a write, from its i-th pass on:
\* the registers and the values appended to res.
RECURSIVE WriteLoop(_, _, _)
WriteLoop(regs, q, i) ==
  IF i >= q.Quantity THEN [regs |-> regs, res |-> << >>]
  ELSE LET addr == q.Addr + i
           after == HoldingWrite(regs, addr, q.Args[i + 1])
           rest == WriteLoop(after, q, i + 1)
       IN [regs |-> rest.regs, res |-> << after[addr] >> \o rest.res]

\* A handler's answer to a write of the holding registers with the
\* configured identity: the bounds check, then the loop.
WriteHolding(tb, n, q) ==
  IF OutOfBounds(q.Addr, q.Quantity, n)
  THEN [NoProbe EXCEPT !.table = "holding", !.Addr = q.Addr,
                        !.Quantity = q.Quantity, !.IsWrite = TRUE,
                        !.Args = q.Args, !.err = "IllegalDataAddress"]
  ELSE [NoProbe EXCEPT !.table = "holding", !.Addr = q.Addr,
                        !.Quantity = q.Quantity, !.IsWrite = TRUE,
                        !.Args = q.Args, !.err = "nil",
                        !.res = WriteLoop(tb.holding, q, 0).res]

\* handler := NewModbusHandler(cfg, logger), then one write request to it.
NewThenWrite(q) ==
  /\ built = "none"
  /\ LET h == NewModbusHandler(cfg) IN
       /\ built' = h.outcome
       /\ probe' = IF h.outcome = "ok"
                   THEN WriteHolding(h.tb, cfg.MaxRegisters, q)
                   ELSE probe
  /\ UNCHANGED << supVars, storeVars, cfg >>

NextBig == \E q \in BigWrites : NewThenWrite(q)

SpecBig == InitBig /\ [][NextBig]_vars

(***************************************************************************)
(* Specifications of the supervisor: every MaxRetries up to MaxRetriesCap, *)
(* driven by main or by another caller, the transport failing or not at    *)
(* each attempt.  The store is the one constructed from no seed entries.   *)
(*   SpecSup      safety                                                   *)
(*   SpecSupFair  every goroutine that can take a step eventually takes    *)
(*                one, every timer that runs fires, and a loop whose       *)
(*                context is cancelled is not kept from its select's       *)
(*                ctx.Done() case by its ticker forever                    *)
(*   SpecSupStop  only: the calling goroutine runs and the shutdown        *)
(*                deadline passes                                          *)
(*   SpecSupLoops only: the loops run                                      *)
(***************************************************************************)
InitSupervisor ==
  /\ InitStoreFrom({<< >>})
  /\ \E w \in {"main", "caller"}, n \in 0 .. MaxRetriesCap : InitSup(w, n)

DriverNext ==
  \/ MainCallStart
  \/ StartLoopTop
  \/ StartWaitCancelled
  \/ StartWaitElapsed
  \/ NewServer
  \/ Spawn
  \/ ServerStart
  \/ BlockCtx
  \/ AfterStart
  \/ WaitSignal
  \/ StopTransport
  \/ StopSelDone
  \/ StopSelTimeout
  \/ AfterStop

UpdaterNext ==
  \/ UpdaterTick
  \/ Alive /\ UpdInc
  \/ Alive /\ UpdOverflow

HealthNext ==
  \/ HealthTick
  \/ Alive /\ GsLoadReq
  \/ Alive /\ GsLoadErr
  \/ Alive /\ GsReturn

NextSup ==
  \/ DriverNext
  \/ TimerFire
  \/ WaiterDone
  \/ DeadlineFire
  \/ Signal
  \/ CancelCtx
  \/ UpdaterNext
  \/ UpdaterExit
  \/ HealthNext
  \/ HealthExit

SpecSup == InitSupervisor /\ [][NextSup]_vars

Fairness ==
  /\ WF_vars(DriverNext)
  /\ WF_vars(TimerFire)
  /\ WF_vars(WaiterDone)
  /\ WF_vars(DeadlineFire)
  /\ WF_vars(Alive /\ (UpdInc \/ UpdOverflow))
  /\ WF_vars(HealthNext)
  /\ SF_vars(UpdaterExit)
  /\ SF_vars(HealthExit)

SpecSupFair == SpecSup /\ Fairness

\* The part of Fairness that Stop's return rests on: the calling goroutine
\* runs, and the shutdown context's deadline passes.
StopFairness ==
  /\ WF_vars(DriverNext)
  /\ WF_vars(DeadlineFire)

SpecSupStop == SpecSup /\ StopFairness

\* The part of Fairness that the loops' exit rests on: a call a loop has
\* begun runs to its end, and a loop whose context is cancelled is not kept
\* from its select's ctx.Done() case by its ticker forever.
LoopFairness ==
  /\ WF_vars(Alive /\ (UpdInc \/ UpdOverflow))
  /\ WF_vars(Alive /\ (GsLoadReq \/ GsLoadErr \/ GsReturn))
  /\ SF_vars(UpdaterExit)
  /\ SF_vars(HealthExit)

SpecSupLoops == SpecSup /\ LoopFairness

(***************************************************************************)
(* Properties of the store                                                 *)
(***************************************************************************)
InRange(r) == r.Addr + r.Quantity <= MaxRegisters

\* The request client c is working on in a step, if the step is c's.
StepReq(c) == IF client'[c].pc = "idle" THEN client[c].req ELSE client'[c].req

\* C1: a holding write whose range includes the counter address succeeds and
\* leaves the counter cell alone: the cell always holds the value the
\* increment operation last set (h.counter), and that is the value a read of
\* the cell returns, whatever clients tried to write.
C1_CounterProtection ==
  /\ holdingRegs[CounterAddress] = counter
  /\ \A c \in Clients :
       LET r == client[c].req IN
         /\ (r.table = "holding" /\ client[c].pc = "body") =>
              \A j \in 1 .. Len(client[c].res) :
                 r.Addr + j - 1 = CounterAddress => client[c].res[j] = counter
         /\ (/\ client[c].pc = "done"
             /\ r.table = "holding" /\ r.IsWrite
             /\ r.UnitId = UnitID /\ InRange(r)) => client[c].err = "nil"

\* C1 witness: after an increment and after a client tried to write 999 to
\* the counter cell, a read of the cell has just returned the counter.
C1_Witness ==
  /\ nCalls > 0
  /\ lastArg["holding"][CounterAddress] = {999}
  /\ client["c1"].pc = "body"
  /\ client["c1"].req.table = "holding"
  /\ ~client["c1"].req.IsWrite
  /\ client["c1"].req.Addr = CounterAddress
  /\ client["c1"].res = << counter >>

\* C2: a read of a cell of a writable table returns the value the latest
\* write request carried for that cell, for every holding register except
\* the counter cell and for every coil, the coil at CounterAddress included.
C2_RoundTrip ==
  \A c \in Clients :
    LET r == client[c].req IN
      (client[c].pc = "body" /\ r.table \in {"holding", "coil"} /\ ~r.IsWrite) =>
        \A j \in 1 .. Len(client[c].res) :
          LET a == r.Addr + j - 1 IN
            ~(r.table = "holding" /\ a = CounterAddress) =>
              \A v \in lastArg[r.table][a] : client[c].res[j] = v

\* C2 witness: 999 was written to holding register 0 and a read of it has
\* just returned 999.
C2_Witness ==
  /\ lastArg["holding"][0] = {999}
  /\ client["c1"].pc = "body"
  /\ client["c1"].req.table = "holding"
  /\ ~client["c1"].req.IsWrite
  /\ client["c1"].req.Addr = 0
  /\ client["c1"].res = << 999 >>

\* C3: with matching identity a request is rejected with IllegalDataAddress
\* exactly when Addr + Quantity, summed without wraparound, exceeds the table
\* length (a sum equal to the length is accepted), and no step of a request
\* rejected for its bounds changes a table or the counter.
C3_Bounds ==
  /\ [](\A c \in Clients :
          LET r == client[c].req IN
            r.UnitId = UnitID =>
              /\ client[c].pc = "done" =>
                   (client[c].err = "IllegalDataAddress" <=> ~InRange(r))
              /\ client[c].pc \in {"lock", "body"} => InRange(r))
  /\ [][\A c \in Clients :
          (/\ client'[c] # client[c]
           /\ StepReq(c).UnitId = UnitID
           /\ ~InRange(StepReq(c))) => UNCHANGED << tables, counter >>]_vars

\* C3 witness: after an accepted request, a request whose 16-bit sum would
\* wrap to 0 has been rejected with IllegalDataAddress.
C3_Witness ==
  /\ client["c1"].pc = "done"
  /\ client["c1"].req.UnitId = UnitID
  /\ client["c1"].req.Addr = MaxU16
  /\ client["c1"].req.Quantity = 1
  /\ client["c1"].err = "IllegalDataAddress"
  /\ stats.RequestsHandled = 2
  /\ stats.Errors = 1

\* C4: a request with another identity is rejected with IllegalFunction
\* whether or not it is in range, never reaches the lock, and none of its
\* steps changes a table or the counter, a write included.
C4_Identity ==
  /\ [](\A c \in Clients :
          LET r == client[c].req IN
            (client[c].pc # "idle" /\ r.UnitId # UnitID) =>
              /\ client[c].pc \in {"check", "done"}
              /\ client[c].pc = "done" => client[c].err = "IllegalFunction")
  /\ [][\A c \in Clients :
          (/\ client'[c] # client[c]
           /\ StepReq(c).table # "none"
           /\ StepReq(c).UnitId # UnitID) => UNCHANGED << tables, counter >>]_vars

\* C4 witness: an out-of-range write with the wrong identity has been
\* answered IllegalFunction.
C4_Witness ==
  /\ client["c1"].pc = "done"
  /\ client["c1"].req.UnitId = BadUnit
  /\ client["c1"].req.IsWrite
  /\ ~InRange(client["c1"].req)
  /\ client["c1"].err = "IllegalFunction"

\* C5: from a fresh store, after n <= 65535 calls of UpdateCounter the
\* counter and holdingRegs[CounterAddress] both equal n; every call yields a
\* value greater than the one before, except the call made at 65535, which
\* yields 1; the value is never 0 after a call.
C5_CounterIncrement ==
  upd.pc = "idle" =>
    /\ nCalls <= MaxU16 => (counter = nCalls /\ holdingRegs[CounterAddress] = nCalls)
    /\ nCalls > 0 =>
         /\ counter # 0
         /\ holdingRegs[CounterAddress] = counter
         /\ upd.oldValue < MaxU16 => counter > upd.oldValue
         /\ upd.oldValue = MaxU16 => counter = 1

\* C5 witness: the 65536th call has returned, made at 65535 and yielding 1.
C5_Witness ==
  /\ upd.pc = "idle"
  /\ nCalls = MaxU16 + 1
  /\ upd.oldValue = MaxU16
  /\ counter = 1

\* C10: the pair GetStats returns is a pair of counter values that held
\* together at one instant of the call, so its errors never exceed its
\* requests handled.
C10_ConsistentSnapshot ==
  gs.pc = "done" =>
    /\ << gs.RequestsHandled, gs.Errors >> \in seenStats
    /\ gs.Errors <= gs.RequestsHandled

(***************************************************************************)
(* Properties of the supervisor                                            *)
(***************************************************************************)
\* C6: with MaxRetries = N >= 1, Start waits the retry delay once before
\* every start attempt except the first, and when it returns without ctx
\* having been cancelled (every attempt failed) it returns the permanent
\* failure after exactly N attempts and N - 1 waits.
C6_RetryExhaustion ==
  maxRetries >= 1 =>
    /\ mpc = "newServer" => waits = attempts
    /\ (mpc = "startRet" /\ ~ctxDone) => startErr = "maxRetries"
    /\ startErr = "maxRetries" =>
         (attempts = maxRetries /\ waits = maxRetries - 1)

\* C6 witness: MaxRetries 3, three failed attempts, two waits, no
\* cancellation, and Start has returned the permanent failure.
C6_Witness ==
  /\ maxRetries = 3
  /\ mpc = "startRet"
  /\ startErr = "maxRetries"
  /\ ~ctxDone
  /\ attempts = 3
  /\ waits = 2

\* C7 as claimed: no start attempt ever begins once cancellation has been
\* signalled.
C7_NoAttemptAfterCancel == [][attempts' > attempts => ~ctxDone]_vars

\* C7 as amended: when the retry delay's select runs with ctx cancelled and
\* the delay not yet elapsed, Start returns the cancellation error without
\* another attempt, and makes none afterwards; once ctx is cancelled at most
\* one more start attempt begins, the one Start was already past its last
\* look at ctx for.
C7_CancelDuringWait ==
  /\ [](attemptsAfterCancel <= 1)
  /\ [][(mpc = "wait" /\ mpc' # "wait" /\ ctxDone /\ ~timerFired) =>
          (mpc' = "startRet" /\ startErr' = "canceled" /\ attempts' = attempts)]_vars
  /\ [][abortedWait => attempts' = attempts]_vars

\* C7 witness: the retry delay was cut short by the cancellation and Start
\* has returned the cancellation error with no attempt made after it.
C7_Witness ==
  /\ abortedWait
  /\ mpc = "startRet"
  /\ startErr = "canceled"
  /\ retryCount > 0
  /\ attemptsAfterCancel = 0

\* C8: as wired by main, a shutdown signal delivered while the server is
\* running leads to Stop (the transport stopped) and to the process's exit.
C8_SignalLeadsToExit ==
  (wiring = "main" /\ sigRunning)
    ~> (server = "stopped" /\ mpc \in {"exit0", "exit1"})

\* C9: Stop stops the transport before it waits; it returns nil only when
\* every spawned loop has exited; and it always returns, with the timeout
\* error if the deadline passes while a loop is still running.
C9_StopBounded ==
  /\ [](mpc \in {"stopSel", "stopRet"} => server \in {"nil", "stopped"})
  /\ []((mpc = "stopRet" /\ stopErr = "nil") =>
          (updLoops = 0 /\ healthLoops = 0 /\ wg = 0))
  /\ []((mpc = "stopRet" /\ updLoops + healthLoops > 0) =>
          (stopErr = "DeadlineExceeded" /\ sdDone))
  /\ (mpc = "stop") ~> (mpc = "stopRet")

\* C9 witness: Stop has returned the timeout error while a loop is still
\* running.
C9_Witness ==
  /\ mpc = "stopRet"
  /\ stopErr = "DeadlineExceeded"
  /\ server = "stopped"
  /\ updLoops > 0

(***************************************************************************)
(* Statistics of a rejected request                                        *)
(***************************************************************************)
\* C11 as claimed: no step of a request with another identity changes a
\* statistic other than the error counter, which the request raises by one.
C11_OnlyErrorCounter ==
  [][\A c \in Clients :
       (/\ client'[c] # client[c]
        /\ StepReq(c).table # "none"
        /\ StepReq(c).UnitId # UnitID) =>
          /\ stats'.RequestsHandled = stats.RequestsHandled
          /\ stats'.Errors \in {stats.Errors, stats.Errors + 1}]_vars

\* C11 as amended: a request with another identity takes three steps.  Its
\* entry raises the request counter by one and leaves the error counter; its
\* identity check raises the error counter by one, leaves the request
\* counter and ends the request with IllegalFunction; the hand-over of the
\* result changes neither.
C11_RequestAndErrorCounter ==
  [][\A c \in Clients :
       (/\ client'[c] # client[c]
        /\ StepReq(c).table # "none"
        /\ StepReq(c).UnitId # UnitID) =>
          CASE client[c].pc = "idle" ->
                 /\ client'[c].pc = "check"
                 /\ stats' = [stats EXCEPT !.RequestsHandled = @ + 1]
            [] client[c].pc = "check" ->
                 /\ client'[c].pc = "done"
                 /\ client'[c].err = "IllegalFunction"
                 /\ stats' = [stats EXCEPT !.Errors = @ + 1]
            [] client[c].pc = "done" ->
                 /\ client'[c].pc = "idle"
                 /\ stats' = stats
            [] OTHER -> FALSE]_vars

\* C11 witness: the second request, a write with another identity, has been
\* rejected: two requests and one error are counted.
C11_Witness ==
  /\ client["c1"].pc = "done"
  /\ client["c1"].req.UnitId = BadUnit
  /\ client["c1"].req.IsWrite
  /\ client["c1"].err = "IllegalFunction"
  /\ stats = [RequestsHandled |-> 2, Errors |-> 1]

(***************************************************************************)
(* Properties of construction                                              *)
(***************************************************************************)
\* C12: construction with a counter address that is not below MaxRegisters
\* ends in a configuration error (and with no handler).
C12_ConfigurationError ==
  (built # "none" /\ cfg.CounterAddress >= cfg.MaxRegisters) =>
    built = "ConfigurationError"

\* The value the seed list gives cell a of table t: that of the last entry
\* for the cell, or 0 when there is none.
SeedValue(seed, t, a) ==
  LET idx == {i \in DOMAIN seed : seed[i].Type = t /\ seed[i].Address = a} IN
    IF idx = {} THEN 0
    ELSE seed[CHOOSE i \in idx : \A j \in idx : j <= i].Value

\* C13: whether construction succeeds does not depend on the seed list; a
\* read of the handler constructed returns, for every cell that an entry of
\* a known kind names (an address below MaxRegisters), that entry's value
\* (the last such entry's, and the counter cell apart, which construction
\* resets), and zero for every other cell: skipped entries have changed
\* nothing and every other entry was applied.
C13_SeedSkipped ==
  built # "none" =>
    /\ built = "ok" <=> cfg.CounterAddress < cfg.MaxRegisters
    /\ probe.err = "nil" =>
         \A j \in 1 .. probe.Quantity :
           LET a == probe.Addr + j - 1
               v == SeedValue(cfg.InitialData, probe.table, a)
           IN probe.res[j] =
                CASE probe.table = "holding" ->
                       IF a = cfg.CounterAddress THEN 0 ELSE v
                  [] probe.table = "input" -> v
                  [] OTHER -> (v # 0)

\* C14: the handler constructed with MaxRegisters 1000, counter address 102
\* and no seed list answers a read of holding registers 100..102 with
\* [2024, 2025, 0].
C14_DefaultValues ==
  (/\ built = "ok"
   /\ cfg = [MaxRegisters |-> TestMaxRegisters,
             CounterAddress |-> TestCounterAddress, InitialData |-> << >>]
   /\ probe.table = "holding"
   /\ probe.Addr = 100
   /\ probe.Quantity = 3) =>
     (probe.err = "nil" /\ probe.res = << 2024, 2025, 0 >>)

(***************************************************************************)
(* Properties of the background loops                                      *)
(***************************************************************************)
\* C15: whenever a Counter Loop or Health Loop is running, or the counter
\* has been incremented by the loop, a transport start has succeeded.
C15_LoopsAfterStart ==
  (updLoops > 0 \/ healthLoops > 0 \/ upd.pc # "idle" \/ nCalls > 0) => startedOk

\* C16: when Stop is called while both loops are running and the start
\* context is not cancelled, then, unless something else cancels it, both
\* loops exit and Stop returns nil.
C16_StopCancelsLoops ==
  (mpc = "stop" /\ updLoops > 0 /\ healthLoops > 0 /\ ~ctxDone)
    ~> \/ ctxDone
       \/ (mpc = "stopRet" /\ stopErr = "nil" /\ updLoops = 0 /\ healthLoops = 0)

\* C17: once the start context is cancelled every loop exits; a loop exits
\* only with the context cancelled and from its select, not from inside
\* UpdateCounter, whose increment in progress therefore completes first; a
\* call of UpdateCounter begins only from a loop waiting in its select; and
\* the counter changes only inside a call made by a loop that has not exited.
C17_LoopsExit ==
  /\ ctxDone ~> (updLoops = 0 /\ healthLoops = 0)
  /\ [][updLoops' < updLoops =>
          (ctxDone /\ UpdAtSelect > 0 /\ counter' = counter /\ upd' = upd)]_vars
  /\ [][(upd.pc = "idle" /\ upd'.pc # "idle") => UpdAtSelect > 0]_vars
  /\ [][counter' # counter => (updLoops > 0 /\ upd.pc # "idle")]_vars

\* C17 witness: the loops ran, the Counter Loop incremented the counter, the
\* context was cancelled and every loop has exited.
C17_Witness ==
  /\ ctxDone
  /\ startedOk
  /\ nCalls > 0
  /\ counter = nCalls
  /\ updLoops = 0
  /\ healthLoops = 0
  /\ wg = 0

\* The table a request is served from, as it is now.
TableNow(t) ==
  CASE t = "holding" -> holdingRegs
    [] t = "input" -> inputRegs
    [] t = "coil" -> coils
    [] t = "discrete" -> discreteInputs

InBody(c) == client[c].pc = "body"

\* c is between two of its per-address steps.
MidRequest(c) ==
  InBody(c) /\ client[c].i > 0 /\ client[c].i < client[c].req.Quantity

\* d takes one per-address step.
StepsBody(d) == InBody(d) /\ client'[d].i = client[d].i + 1

\* C18: every read-only request, on any of the four tables, holds the table
\* lock in shared mode while it is inside its table access, so two read
\* requests of different clients can be inside together.
C18_ReadsShared ==
  \A c \in Clients :
    (InBody(c) /\ ~client[c].req.IsWrite) =>
      (c \in mu.readers /\ mu.writer = "none")

\* C19: while a holding write, a coil write or a counter increment is inside
\* its table access, no other table operation, reader or writer, is inside
\* its table access.
C19_WriterExclusion ==
  /\ \A c \in Clients :
       (InBody(c) /\ client[c].req.IsWrite) =>
         /\ upd.pc = "idle"
         /\ \A d \in Clients \ {c} : ~InBody(d)
  /\ upd.pc # "idle" => \A c \in Clients : ~InBody(c)

C19_Witness ==
  \/ \E c \in Clients :
       /\ InBody(c) /\ client[c].req.IsWrite
       /\ client[c].req.table = "coil"
       /\ \E d \in Clients \ {c} : client[d].pc = "lock"
  \/ /\ upd.pc = "ovf"
     /\ \E d \in Clients : client[d].pc = "lock" /\ client[d].req.IsWrite

\* The cells a request has processed so far are those from its first address
\* upwards, in order, and the values collected for them are the values the
\* table holds now.
OneTableState ==
  \A c \in Clients :
    InBody(c) =>
      /\ Len(client[c].res) = client[c].i
      /\ \A j \in 1 .. client[c].i :
           client[c].res[j] = TableNow(client[c].req.table)[client[c].req.Addr + j - 1]

\* While a request is inside its table access, the tables change only by
\* that request's own step, and a counter increment does not move.
NoWriteInterleaves ==
  \A c \in Clients :
    (InBody(c) /\ (tables' # tables \/ upd' # upd)) =>
      /\ StepsBody(c)
      /\ upd' = upd
      /\ \A d \in Clients \ {c} : client'[d] = client[d]

\* While a holding or coil request, or a counter increment, is inside its
\* table access, no other request takes a per-address step.
NoStepBesideExclusive ==
  /\ \A c \in Clients :
       (InBody(c) /\ LockMode(client[c].req.table) = "exclusive") =>
         \A d \in Clients \ {c} : ~InBody(d)
  /\ upd.pc # "idle" => \A c \in Clients : ~InBody(c)

\* The steps of a request go upwards by one cell at a time.
Ascending ==
  \A c \in Clients :
    (InBody(c) /\ client'[c].i # client[c].i) =>
      (client'[c].i = client[c].i + 1 /\ InBody(c)')

\* C20 as stated: a multi-register request is atomic; its addresses are
\* processed in ascending order and no other write, counter increment or
\* read takes a step between two of its per-address steps, so the values it
\* returns are from one table state.
C20_NothingInterleaves ==
  /\ []OneTableState
  /\ [][Ascending /\ NoWriteInterleaves]_vars
  /\ [][\A c \in Clients : MidRequest(c) =>
          \A d \in Clients \ {c} : ~StepsBody(d)]_vars

\* C20: a multi-register request processes its addresses in ascending order;
\* no write and no counter increment takes a step while any request is
\* inside its table access, no request at all takes a step beside a holding
\* or coil request, and the values a request has collected are those of the
\* table as it is now, so what it returns is from one table state.  Reads of
\* the input table may interleave with one another.
C20_AtomicRequest ==
  /\ [](OneTableState /\ NoStepBesideExclusive)
  /\ [][Ascending /\ NoWriteInterleaves]_vars

C20_Witness ==
  \E c \in Clients :
    /\ MidRequest(c)
    /\ client[c].req.table = "holding" /\ client[c].req.IsWrite
    /\ \E d \in Clients \ {c} :
         /\ client[d].pc = "lock"
         /\ client[d].req.table = "holding" /\ ~client[d].req.IsWrite

\* The handler calls that have been counted in and have not returned.
InFlight == { c \in Clients : client[c].pc \in {"check", "lock", "body"} }

\* C21: under any interleaving of handler calls the two counters never
\* decrease and no increment is lost: the request counter is the number of
\* calls that have returned plus those in flight, the error counter is the
\* number of calls that returned an exception, and the error counter never
\* exceeds the request counter.
C21_CountersExact ==
  /\ [](/\ stats.RequestsHandled = calls.returned + Cardinality(InFlight)
        /\ stats.Errors = calls.rejected
        /\ stats.Errors <= stats.RequestsHandled)
  /\ [][/\ stats'.RequestsHandled >= stats.RequestsHandled
        /\ stats'.Errors >= stats.Errors]_vars

C21_Witness ==
  /\ InFlight = {}
  /\ calls.returned = MaxReqs
  /\ calls.rejected = 1
  /\ stats.RequestsHandled = MaxReqs
  /\ \A c \in Clients : client[c].pc = "done"

Exceptions == {"IllegalFunction", "IllegalDataAddress"}

\* The request carries the configured identity and lies within its table.
Acceptable(r) == r.UnitId = UnitID /\ InRange(r)

\* The exception of the first check a request fails.
ExceptionOf(r) ==
  IF r.UnitId # UnitID THEN "IllegalFunction" ELSE "IllegalDataAddress"

\* C22: a request rejected for its identity or its bounds never acquires the
\* table lock: only a request that passed both checks reaches Lock or RLock,
\* the rejecting step can be taken whoever holds the lock, it leaves the lock
\* and the tables as they are, and it returns the exception of the check
\* that failed.
C22_RejectedNeverLocks ==
  /\ [](\A c \in Clients :
          /\ client[c].pc \in {"lock", "body"} => Acceptable(client[c].req)
          /\ (client[c].pc = "check" /\ ~Acceptable(client[c].req))
               => ENABLED Check(c)
          /\ client[c].err \in Exceptions
               => (c \notin mu.readers /\ mu.writer # c))
  /\ [][\A c \in Clients :
          (client[c].pc = "check" /\ client'[c].pc = "done") =>
            /\ ~Acceptable(client[c].req)
            /\ client'[c].err = ExceptionOf(client[c].req)
            /\ mu' = mu
            /\ tables' = tables]_vars

C22_Witness ==
  \E c \in Clients :
    /\ client[c].pc = "done"
    /\ client[c].err \in Exceptions
    /\ \E d \in Clients \ {c} :
         /\ MidRequest(d)
         /\ mu.writer = d
         /\ client[d].req.IsWrite

\* C23: in every state in which no writer holds the table lock, the counter
\* cell of the holding registers holds the counter value: both are 0 after
\* construction, and client requests and counter increments keep them equal.
C23_CounterMirrored ==
  mu.writer = "none" => holdingRegs[CounterAddress] = counter

C23_Witness ==
  /\ mu.writer = "none"
  /\ nCalls > 0
  /\ counter > 0
  /\ holdingRegs[CounterAddress] = counter
  /\ lastArg["holding"][CounterAddress] # {}
  /\ counter \notin lastArg["holding"][CounterAddress]

\* The tables as the loop over the seed list leaves them, before the reset.
Seeded(config) ==
  ApplySeeds(ZeroTables(config.MaxRegisters), config.InitialData,
             config.MaxRegisters)

\* C24: right after construction the counter is 0 and the counter cell of
\* the holding registers is 0 whatever the seed list contains; a holding
\* entry for the counter address is overridden, while what the seed list put
\* into the input, coil and discrete tables at the same index is kept.
C24_CounterCellReset ==
  built = "ok" =>
    /\ probe.counter = 0
    /\ probe.err = "nil" =>
         \A j \in 1 .. probe.Quantity :
           probe.Addr + j - 1 = cfg.CounterAddress =>
             probe.res[j] =
               IF probe.table = "holding" THEN 0
               ELSE Seeded(cfg)[probe.table][cfg.CounterAddress]

C24_Witness ==
  /\ built = "ok"
  /\ probe.err = "nil"
  /\ probe.table = "holding"
  /\ cfg.CounterAddress \in probe.Addr .. (probe.Addr + probe.Quantity - 1)
  /\ cfg.CounterAddress < ToU16(cfg.MaxRegisters)
  /\ SeedValue(cfg.InitialData, "holding", cfg.CounterAddress) # 0
  /\ SeedValue(cfg.InitialData, "input", cfg.CounterAddress) # 0
  /\ probe.res[cfg.CounterAddress - probe.Addr + 1] = 0

C26_HealthObserves ==
  /\ [][gs' # gs =>
          /\ tables' = tables
          /\ counter' = counter
          /\ stats' = stats
          /\ mu' = mu]_vars
  /\ [](Alive =>
          /\ (healthLoops > 0 /\ gs.pc = "idle") => ENABLED HealthTick
          /\ gs.pc = "loadReq" => ENABLED GsLoadReq
          /\ gs.pc = "loadErr" => ENABLED GsLoadErr
          /\ gs.pc = "done" => ENABLED GsReturn)

C26_Witness ==
  /\ healthLoops > 0
  /\ gs.pc = "loadErr"
  /\ upd.pc = "ovf"
  /\ mu.writer = "upd"

\* The holding request of c has processed its last address and is about to
\* return.
HoldingLoopDone(c) ==
  /\ InBody(c)
  /\ client[c].req.table = "holding"
  /\ client[c].i = client[c].req.Quantity

\* C27: an accepted holding request returns exactly Quantity values, in
\* ascending address order, equal to the post-state of the requested range:
\* for a write, position i holds Args[i] unless Addr + i is the counter
\* address, where it holds the unchanged counter value; for a read, the
\* values are the table's contents and no step of the request changes the
\* table.
C27_HoldingPostState ==
  /\ [](\A c \in Clients :
          LET r == client[c].req IN
            HoldingLoopDone(c) =>
              /\ Len(client[c].res) = r.Quantity
              /\ \A j \in 1 .. r.Quantity :
                   LET a == r.Addr + j - 1 IN
                     /\ client[c].res[j] = holdingRegs[a]
                     /\ r.IsWrite =>
                          client[c].res[j] =
                            IF a = CounterAddress THEN counter ELSE r.Args[j])
  /\ [][\A c \in Clients :
          /\ (InBody(c) /\ client[c].req.table = "holding"
                /\ ~client[c].req.IsWrite) => holdingRegs' = holdingRegs
          /\ (HoldingLoopDone(c) /\ client'[c].pc = "done") =>
               /\ client'[c].res = client[c].res
               /\ client'[c].err = "nil"
               /\ holdingRegs' = holdingRegs]_vars

C27_Witness ==
  \E c \in Clients :
    /\ HoldingLoopDone(c)
    /\ client[c].req.IsWrite
    /\ client[c].req.Addr = 0
    /\ client[c].req.Quantity = MaxRegisters
    /\ nCalls > 0
    /\ client[c].res[CounterAddress + 1] = counter
    /\ client[c].req.Args[CounterAddress + 1] # counter
    /\ client[c].res[1] = client[c].req.Args[1]
    /\ holdingRegs[0] = client[c].req.Args[1]

\* C28: once the counter has been incremented, no request on the holding
\* registers is ever handed 0 for the counter cell, whatever the interleaving
\* of requests and increments, the increment that wraps around from 65535
\* included: the 0 written before the reset to 1 is never read.
C28_NeverReadsZero ==
  [][\A c \in Clients :
       (/\ StepsBody(c)
        /\ client[c].req.table = "holding"
        /\ client[c].req.Addr + client[c].i = CounterAddress
        /\ nCalls > 0) =>
         /\ client'[c].res[client[c].i + 1] # 0
         /\ client'[c].res[client[c].i + 1] = counter
         /\ upd.pc = "idle"]_vars

C28_Witness ==
  /\ nCalls = MaxU16 + 1
  /\ counter = 1
  /\ upd.oldValue = MaxU16
  /\ \E c \in Clients :
       /\ client[c].pc = "done"
       /\ client[c].req.Addr = CounterAddress
       /\ client[c].res = << 1 >>
  /\ \E c \in Clients :
       /\ client[c].pc = "done"
       /\ client[c].req.Addr = CounterAddress
       /\ client[c].res = << MaxU16 >>

\* C29: across any number of failed and retried start attempts of one
\* supervisor there is at most one runRegisterUpdater goroutine and at most
\* one runHealthChecker goroutine.
C29_OneLoopEach == updLoops <= 1 /\ healthLoops <= 1

\* The lock is held by exactly the operations inside their table access.
LockHeldByBody ==
  /\ mu.writer = "upd" <=> upd.pc # "idle"
  /\ \A c \in Clients :
       /\ mu.writer = c <=>
            (InBody(c) /\ LockMode(client[c].req.table) = "exclusive")
       /\ c \in mu.readers <=>
            (InBody(c) /\ LockMode(client[c].req.table) = "shared")
  /\ mu.readers \subseteq Clients
  /\ mu.writer \in Clients \cup {"upd", "none"}

\* C30: the table lock is released on every path out of every store
\* operation and no operation waits for anything while it holds the lock, so
\* there is no deadlock: under fair scheduling every handler call that has
\* started returns, every call of UpdateCounter that holds the lock returns,
\* and every call of GetStats returns.
C30_OperationsComplete ==
  /\ []LockHeldByBody
  /\ \A c \in Clients :
       (client[c].pc \in {"check", "lock", "body"}) ~> (client[c].pc = "done")
  /\ (upd.pc # "idle") ~> (upd.pc = "idle")
  /\ (gs.pc # "idle") ~> (gs.pc = "idle")

C30_Witness ==
  /\ nCalls > 0
  /\ mu = [writer |-> "none", readers |-> {}]
  /\ \A c \in Clients : client[c].pc = "done" /\ client[c].err = "nil"
  /\ \E c \in Clients : LockMode(client[c].req.table) = "exclusive"
  /\ \E c \in Clients : LockMode(client[c].req.table) = "shared"

\* C31: the number of start attempts Start makes never exceeds MaxRetries;
\* with MaxRetries = 0 Start fails without attempting to start the transport.
C31_AttemptsWithinMaxRetries ==
  /\ attempts <= maxRetries
  /\ maxRetries = 0 => (server = "nil" /\ ~startedOk)

\* C32: write protection applies to the counter address and to no other:
\* for every table size, sizes beyond 65536 included, every accepted write
\* of the holding registers puts its value into each cell it names other
\* than the counter cell, so that the value returned for the cell is the
\* value written.
C32_OnlyCounterProtected ==
  (built = "ok" /\ probe.IsWrite /\ probe.err = "nil") =>
    \A j \in 1 .. probe.Quantity :
      probe.Addr + j - 1 # cfg.CounterAddress =>
        probe.res[j] = probe.Args[j]

====
